---------------------------- MODULE Spec2Model ----------------------------
(***************************************************************************)
(* A model of timelord.go: the concurrent batch search (performSearch and  *)
(* searchCity), the enrichment loop (formatResults) and the two-stage      *)
(* airport ranking (FindClosestAirport, HaversineDistance).                *)
(*                                                                         *)
(* Two state machines share the module.  Spec runs main(): performSearch   *)
(* over a batch of terms, one goroutine per term, then formatResults.      *)
(* SpecAirports runs FindClosestAirport stage by stage over every bounded  *)
(* candidate list.  LiveSpec is Spec with the fairness of the Go scheduler.*)
(***************************************************************************)
EXTENDS Integers, Sequences, FiniteSets, TLC

VARIABLES
    cities,      \* performSearch's argument: the batch of search terms
    mainpc,      \* position of the main goroutine
    spawned,     \* number of goroutines started by the loop of line 280
    taskpc,      \* position of each dispatched goroutine
    taskres,     \* *res of each goroutine once searchCity has returned
    wg,          \* the sync.WaitGroup counter
    recvCount,   \* the loop variable i of line 289
    results,     \* the slice results of performSearch
    received,    \* history: the task numbers in the order their sends were received
    chanClosed,  \* whether close(runner) has happened
    crashed,     \* "none", or the cause of the unrecovered panic that ended the process
    fmtI,        \* number of cities formatResults' loop has handled
    output,      \* the slice output of formatResults
    apc,         \* position inside FindClosestAirport
    apoint,      \* the latitude argument of FindClosestAirport
    acands,      \* the airports argument of FindClosestAirport
    amatches,    \* the slice matches
    afilter,     \* the slice filter
    aresult      \* the returned slice

searchVars == <<cities, mainpc, spawned, taskpc, taskres, wg, recvCount, results,
                received, chanClosed, crashed, fmtI, output>>
airportVars == <<apc, apoint, acands, amatches, afilter, aresult>>
vars == <<searchVars, airportVars>>

---------------------------------------------------------------------------
(* Bounds *)

\* longest batch of terms
MaxTerms == 3
\* longest candidate list handed to FindClosestAirport
MaxAirports == 6

---------------------------------------------------------------------------
(* Helpers *)

Min(a, b) == IF a < b THEN a ELSE b

Abs(x) == IF x < 0 THEN 0 - x ELSE x

\* s[:k] of a Go slice
Prefix(s, k) == SubSeq(s, 1, k)

---------------------------------------------------------------------------
(* HaversineDistance and FindClosestAirport *)

\* the Earth radius of line 82, in km
EarthRadius == 6371

\* Coordinates are whole degrees on one meridian (lg1 = lg2).  There
\* diffLong = 0, a = sin^2(diffLat/2) and c = |diffLat| in radians, so the
\* function returns |la2 - la1| * pi/180 * 6371; pi is taken as 355/113 and
\* the result is in whole km.
HaversineDistance(la1, lg1, la2, lg2) ==
    (Abs(la2 - la1) * 355 * EarthRadius) \div (180 * 113)

\* Go compares strings bytewise; the type strings of the airport dataset
\* are ranked in that order.
TypeRank(t) ==
    CASE t = "" -> 0
      [] t = "large_airport" -> 1
      [] t = "medium_airport" -> 2
      [] t = "small_airport" -> 3

\* a comparison by distance that also holds between equal distances
LessDistanceOrEqual(a, b) == a.Distance <= b.Distance

\* the less function of the first sort.SliceStable (line 230)
LessDistance(a, b) == a.Distance < b.Distance

\* a comparison by type turned the other way round
LessTypeDescending(a, b) == TypeRank(a.Type) > TypeRank(b.Type)

\* the less function of the second sort.SliceStable (line 235)
LessType(a, b) == TypeRank(a.Type) < TypeRank(b.Type)

Swap(s, i, j) == [s EXCEPT ![i] = s[j], ![j] = s[i]]

\* the closure handed to sort.SliceStable: by "distance" (line 230) or by
\* "type" (line 235)
Less(by, a, b) == IF by = "distance" THEN LessDistance(a, b) ELSE LessType(a, b)

\* sort.SliceStable on a slice of at most 20 elements is one insertion sort:
\*   for i := a+1; i < b; i++ { for j := i; j > a && less(j, j-1); j-- { swap(j, j-1) } }
RECURSIVE SiftDown(_, _, _)
SiftDown(s, j, by) ==
    IF j > 1 /\ Less(by, s[j], s[j-1])
    THEN SiftDown(Swap(s, j, j-1), j-1, by)
    ELSE s

RECURSIVE InsertionSort(_, _, _)
InsertionSort(s, i, by) ==
    IF i > Len(s) THEN s
    ELSE InsertionSort(SiftDown(s, i, by), i+1, by)

SliceStable(s, by) == InsertionSort(s, 2, by)

\* lines 223-227: every candidate, in input order, with its distance attached
WithDistance(lat, long, airports) ==
    [i \in 1..Len(airports) |->
        [airports[i] EXCEPT !.Distance =
            HaversineDistance(lat, long, airports[i].Lat, airports[i].Long)]]

\* line 233: matches[:min(len(matches), 5)]
NearestCut(matches) == Prefix(matches, Min(Len(matches), 5))

\* a return of the whole of filter
TopCutAll(filter) == filter

\* line 238: filter[:min(len(filter), 3)]
TopCut(filter) == Prefix(filter, Min(Len(filter), 3))

FindClosestAirport(lat, long, airports) ==
    LET matches == SliceStable(WithDistance(lat, long, airports), "distance")
        filter == SliceStable(NearestCut(matches), "type")
    IN  TopCut(filter)

---------------------------------------------------------------------------
(* The datasets: the cities held by the bleve index and the lookup tables *)

\* the zero value City{} of line 251
EmptyCity ==
    [ID |-> "", Name |-> "", CountryID |-> "", Timezone |-> "",
     Population |-> 0, Latitude |-> "", Longitude |-> ""]

\* the documents CreateIndex (lines 213-215) has put in the index; bleve
\* refuses a document with an empty ID, so every indexed city has one
IndexedCities ==
    { [ID |-> "6167865", Name |-> "toronto", CountryID |-> "CA",
       Timezone |-> "America/Toronto", Population |-> 2800, Latitude |-> "1",
       Longitude |-> "0"],
      [ID |-> "2643743", Name |-> "london", CountryID |-> "GB",
       Timezone |-> "Europe/London", Population |-> 8900, Latitude |-> "2",
       Longitude |-> "0"],
      [ID |-> "6058560", Name |-> "london", CountryID |-> "CA",
       Timezone |-> "America/Toronto", Population |-> 380, Latitude |-> "1",
       Longitude |-> "0"],
      [ID |-> "7000001", Name |-> "atlantis", CountryID |-> "ZZ",
       Timezone |-> "Ocean/Atlantis", Population |-> 10, Latitude |-> "x",
       Longitude |-> "0"] }

\* the terms a batch is drawn from: three that match, one that does not
Terms == {"toronto", "london", "atlantis", "nonexistentcityxyz"}

\* the zone names time.LoadLocation finds in the tz database
KnownZones == {"", "UTC", "America/Toronto", "Europe/London"}

Airport(id, code, lat, type) ==
    [ID |-> id, Code |-> code, CountryCode |-> "", Lat |-> lat, Long |-> 0,
     Type |-> type, Distance |-> 0]

\* GetAirportsByCountry (lines 132-134): country code -> airports, file order
AirportIndex(country) ==
    CASE country = "CA" ->
            << Airport(1, "YTZ", 1, "medium_airport"),
               Airport(2, "YYZ", 1, "large_airport"),
               Airport(3, "YHM", 2, "medium_airport"),
               Airport(4, "YKF", 2, "small_airport"),
               Airport(5, "YOW", 3, "large_airport"),
               Airport(6, "YVR", 9, "large_airport") >>
      [] country = "GB" ->
            << Airport(7, "LGW", 3, "large_airport"),
               Airport(8, "LHR", 2, "large_airport") >>
      [] OTHER -> << >>

\* strconv.ParseFloat of a coordinate text (lines 325-326): the number, or 0
\* with an error that is dropped
ParseFloat(s) ==
    CASE s = "0" -> 0
      [] s = "1" -> 1
      [] s = "2" -> 2
      [] s = "3" -> 3
      [] OTHER -> 0

---------------------------------------------------------------------------
(* searchCity *)

RECURSIVE ByPopulationDesc(_)
ByPopulationDesc(S) ==
    IF S = {} THEN << >>
    ELSE LET top == CHOOSE c \in S : \A d \in S : d.Population <= c.Population
         IN  <<top>> \o ByPopulationDesc(S \ {top})

\* index.Search of the match query of lines 242-245: the documents whose name
\* holds the term, all with the same score, sorted by "-_score", "-population"
SearchHits(term) == ByPopulationDesc({c \in IndexedCities : c.Name = term})

\* the lowest-ranked hit instead of the first
LastHit(hits) == hits[Len(hits)]

\* line 271: &results[0]
BestHit(hits) == hits[1]

\* What one call of searchCity can do.  fault is what the index does to this
\* call: "none", "search" (index.Search returns an error, line 246) or
\* "document" (index.Document returns no document for a hit, line 257).
\* The outcome is a panic (panic(err) of line 247, or the nil dereference of
\* line 259) or the returned *City.
searchCity(term, fault) ==
    IF fault = "search" THEN [panic |-> "panic: search error", res |-> EmptyCity]
    ELSE IF Len(SearchHits(term)) = 0 THEN [panic |-> "none", res |-> EmptyCity]
    ELSE IF fault = "document" THEN [panic |-> "panic: nil document", res |-> EmptyCity]
    ELSE [panic |-> "none", res |-> BestHit(SearchHits(term))]

Panicking == {"panic: search error", "panic: nil document"}

Faults == {"none", "search", "document"}

---------------------------------------------------------------------------
(* performSearch: the main goroutine and one goroutine per term *)

N == Len(cities)
Tasks == 1..N

\* every batch of at most MaxTerms terms
Batches == UNION {[1..n -> Terms] : n \in 0..MaxTerms}

NoAirportRun ==
    /\ apc = "off"
    /\ apoint = 0
    /\ acands = << >>
    /\ amatches = << >>
    /\ afilter = << >>
    /\ aresult = << >>

Init ==
    /\ cities \in Batches
    /\ mainpc = "make"
    /\ spawned = 0
    /\ taskpc = [t \in Tasks |-> "unborn"]
    /\ taskres = [t \in Tasks |-> EmptyCity]
    /\ wg = 0
    /\ recvCount = 0
    /\ results = << >>
    /\ received = << >>
    /\ chanClosed = FALSE
    /\ crashed = "none"
    /\ fmtI = 0
    /\ output = << >>
    /\ NoAirportRun

Alive == crashed = "none"

\* lines 275-278: make(chan City); wg.Add(len(cities))
MakeChan ==
    /\ Alive
    /\ mainpc = "make"
    /\ wg' = wg + N
    /\ mainpc' = "spawn"
    /\ UNCHANGED <<cities, spawned, taskpc, taskres, recvCount, results, received,
                   chanClosed, crashed, fmtI, output, airportVars>>

\* lines 280-286: the next term's goroutine is started, or the loop ends
Spawn ==
    /\ Alive
    /\ mainpc = "spawn"
    /\ IF spawned < N
       THEN /\ taskpc' = [taskpc EXCEPT ![spawned + 1] = "search"]
            /\ spawned' = spawned + 1
            /\ UNCHANGED mainpc
       ELSE /\ mainpc' = "recv"
            /\ UNCHANGED <<taskpc, spawned>>
    /\ UNCHANGED <<cities, taskres, wg, recvCount, results, received, chanClosed,
                   crashed, fmtI, output, airportVars>>

\* line 283: res, _ := searchCity(item, cityIndex).  A panic starts to unwind
\* the goroutine; otherwise the goroutine goes on to its send.
TaskSearch(t) ==
    /\ Alive
    /\ taskpc[t] = "search"
    /\ \E fault \in Faults :
         LET r == searchCity(cities[t], fault)
         IN  IF r.panic # "none"
             THEN /\ taskpc' = [taskpc EXCEPT ![t] = r.panic]
                  /\ UNCHANGED taskres
             ELSE /\ taskpc' = [taskpc EXCEPT ![t] = "send"]
                  /\ taskres' = [taskres EXCEPT ![t] = r.res]
    /\ UNCHANGED <<cities, mainpc, spawned, wg, recvCount, results, received,
                   chanClosed, crashed, fmtI, output, airportVars>>

\* The panic of lines 247 or 259 unwinds the goroutine: the deferred
\* wg.Done() of line 282 runs, nothing recovers, and the Go runtime ends the
\* whole process.
TaskPanic(t) ==
    /\ Alive
    /\ taskpc[t] \in Panicking
    /\ wg' = wg - 1
    /\ crashed' = taskpc[t]
    /\ UNCHANGED taskpc
    /\ UNCHANGED <<cities, mainpc, spawned, taskres, recvCount, results, received,
                   chanClosed, fmtI, output, airportVars>>

\* a collecting loop that stops one receive short
RecvGuardShort(i, n) == i + 1 < n

\* line 289: i < len(cities)
RecvGuard(i, n) == i < n

\* a filter that lets every outcome through
IsHitAlways(result) == TRUE

\* line 291: result.ID != ""
IsHit(result) == result.ID # ""

\* a result put in front of the slice instead of at its end
CollectFront(res, result) == <<result>> \o res

\* line 292: results = append(results, result)
Collect(res, result) == Append(res, result)

\* Lines 284 and 290-293: the channel is unbuffered, so the send of task t and
\* the receive of the main goroutine are one step.
Rendezvous(t) ==
    /\ Alive
    /\ taskpc[t] = "send"
    /\ mainpc = "recv"
    /\ RecvGuard(recvCount, N)
    /\ taskpc' = [taskpc EXCEPT ![t] = "sent"]
    /\ received' = Append(received, t)
    /\ results' = IF IsHit(taskres[t]) THEN Collect(results, taskres[t]) ELSE results
    /\ recvCount' = recvCount + 1
    /\ UNCHANGED <<cities, mainpc, spawned, taskres, wg, chanClosed, crashed,
                   fmtI, output, airportVars>>

\* line 282: the deferred wg.Done() as the goroutine returns
TaskDone(t) ==
    /\ Alive
    /\ taskpc[t] = "sent"
    /\ taskpc' = [taskpc EXCEPT ![t] = "done"]
    /\ wg' = wg - 1
    /\ UNCHANGED <<cities, mainpc, spawned, taskres, recvCount, results, received,
                   chanClosed, crashed, fmtI, output, airportVars>>

\* line 289: the collecting loop ends
RecvExit ==
    /\ Alive
    /\ mainpc = "recv"
    /\ ~RecvGuard(recvCount, N)
    /\ mainpc' = "wait"
    /\ UNCHANGED <<cities, spawned, taskpc, taskres, wg, recvCount, results,
                   received, chanClosed, crashed, fmtI, output, airportVars>>

\* a main goroutine that does not wait for the counter
WaitSkipped(w) == TRUE

\* line 296: wg.Wait() returns when the counter is zero
WaitPassed(w) == w = 0

Wait ==
    /\ Alive
    /\ mainpc = "wait"
    /\ WaitPassed(wg)
    /\ mainpc' = "close"
    /\ UNCHANGED <<cities, spawned, taskpc, taskres, wg, recvCount, results,
                   received, chanClosed, crashed, fmtI, output, airportVars>>

\* lines 297-299: close(runner); return results
Close ==
    /\ Alive
    /\ mainpc = "close"
    /\ chanClosed' = TRUE
    /\ mainpc' = "returned"
    /\ UNCHANGED <<cities, spawned, taskpc, taskres, wg, recvCount, results,
                   received, crashed, fmtI, output, airportVars>>

---------------------------------------------------------------------------
(* formatResults *)

\* the zero value SearchResult{} that make() fills output with (line 309)
EmptyItem == [UID |-> "", Title |-> "", Zone |-> "", Airports |-> << >>]

\* line 315: time.LoadLocation gives the location, or nil and an error (which
\* is dropped) for a name the tz database does not hold
LoadLocation(name) == IF name \in KnownZones THEN name ELSE "nil"

\* line 316: Time.In panics when handed a nil *Location
TimeInPanics(loc) == loc = "nil"

\* lines 327-332: the codes of the closest airports of the city's country
AirportCodes(city) ==
    LET airports == FindClosestAirport(ParseFloat(city.Latitude),
                                       ParseFloat(city.Longitude),
                                       AirportIndex(city.CountryID))
    IN  [k \in 1..Len(airports) |-> airports[k].Code]

\* lines 342-349
Item(city) ==
    [UID |-> city.ID, Title |-> city.Name, Zone |-> LoadLocation(city.Timezone),
     Airports |-> AirportCodes(city)]

\* lines 381-382 and 309: main hands the results to formatResults, which
\* makes the output slice
FormatStart ==
    /\ Alive
    /\ mainpc = "returned"
    /\ output' = [k \in 1..Len(results) |-> EmptyItem]
    /\ mainpc' = "format"
    /\ UNCHANGED <<cities, spawned, taskpc, taskres, wg, recvCount, results,
                   received, chanClosed, crashed, fmtI, airportVars>>

\* lines 310-350: one iteration of the loop over results
FormatCity ==
    /\ Alive
    /\ mainpc = "format"
    /\ fmtI < Len(results)
    /\ LET city == results[fmtI + 1]
       IN  IF city.ID = ""
           THEN /\ fmtI' = fmtI + 1
                /\ UNCHANGED <<output, crashed>>
           ELSE IF TimeInPanics(LoadLocation(city.Timezone))
           THEN /\ crashed' = "panic: time.In of a nil Location"
                /\ UNCHANGED <<output, fmtI>>
           ELSE /\ output' = [output EXCEPT ![fmtI + 1] = Item(city)]
                /\ fmtI' = fmtI + 1
                /\ UNCHANGED crashed
    /\ UNCHANGED <<cities, mainpc, spawned, taskpc, taskres, wg, recvCount,
                   results, received, chanClosed, airportVars>>

\* lines 352-354: the payload holds one item per element of output
FormatReturn ==
    /\ Alive
    /\ mainpc = "format"
    /\ fmtI = Len(results)
    /\ mainpc' = "printed"
    /\ UNCHANGED <<cities, spawned, taskpc, taskres, wg, recvCount, results,
                   received, chanClosed, crashed, fmtI, output, airportVars>>

Next ==
    \/ MakeChan
    \/ Spawn
    \/ \E t \in Tasks : TaskSearch(t)
    \/ \E t \in Tasks : TaskPanic(t)
    \/ \E t \in Tasks : Rendezvous(t)
    \/ \E t \in Tasks : TaskDone(t)
    \/ RecvExit
    \/ Wait
    \/ Close
    \/ FormatStart
    \/ FormatCity
    \/ FormatReturn

Spec == Init /\ [][Next]_vars

---------------------------------------------------------------------------
(* FindClosestAirport, stage by stage, over every bounded candidate list *)

\* latitudes (whole degrees) of the point and of the candidate airports
PointLats == {1, 2, 3}
AirportLats == {1, 3}
AirportTypes == {"large_airport", "small_airport"}

AirportCode(i) ==
    IF i <= 8 THEN <<"AAA", "BBB", "CCC", "DDD", "EEE", "FFF", "GGG", "HHH">>[i]
    ELSE ""

\* candidate lists: the i-th airport of the file has ID i
CandidateLists ==
    UNION { { [i \in 1..n |-> Airport(i, AirportCode(i), la[i], ty[i])] :
                la \in [1..n -> AirportLats], ty \in [1..n -> AirportTypes] } :
            n \in 0..MaxAirports }

NoSearchRun ==
    /\ cities = << >>
    /\ mainpc = "off"
    /\ spawned = 0
    /\ taskpc = << >>
    /\ taskres = << >>
    /\ wg = 0
    /\ recvCount = 0
    /\ results = << >>
    /\ received = << >>
    /\ chanClosed = FALSE
    /\ crashed = "none"
    /\ fmtI = 0
    /\ output = << >>

InitAirports ==
    /\ NoSearchRun
    /\ apc = "distances"
    /\ apoint \in PointLats
    /\ acands \in CandidateLists
    /\ amatches = << >>
    /\ afilter = << >>
    /\ aresult = << >>

\* lines 221-227
ComputeDistances ==
    /\ apc = "distances"
    /\ amatches' = WithDistance(apoint, 0, acands)
    /\ apc' = "sortDistance"
    /\ UNCHANGED <<apoint, acands, afilter, aresult, searchVars>>

\* lines 229-231
SortByDistance ==
    /\ apc = "sortDistance"
    /\ amatches' = SliceStable(amatches, "distance")
    /\ apc' = "filter"
    /\ UNCHANGED <<apoint, acands, afilter, aresult, searchVars>>

\* lines 233-236: filter shares the array of matches, so sorting it
\* reorders the front of matches as well
FilterAndSortByType ==
    /\ apc = "filter"
    /\ LET cut == NearestCut(amatches)
           sorted == SliceStable(cut, "type")
       IN  /\ afilter' = sorted
           /\ amatches' = sorted \o SubSeq(amatches, Len(cut) + 1, Len(amatches))
    /\ apc' = "return"
    /\ UNCHANGED <<apoint, acands, aresult, searchVars>>

\* line 238
ReturnTop ==
    /\ apc = "return"
    /\ aresult' = TopCut(afilter)
    /\ apc' = "returned"
    /\ UNCHANGED <<apoint, acands, amatches, afilter, searchVars>>

NextAirports ==
    \/ ComputeDistances
    \/ SortByDistance
    \/ FilterAndSortByType
    \/ ReturnTop

SpecAirports == InitAirports /\ [][NextAirports]_vars

---------------------------------------------------------------------------
(* Properties of FindClosestAirport (checked under SpecAirports) *)

\* the sort key of a stage, read off the record itself
KeyOf(by, a) == IF by = "distance" THEN a.Distance ELSE TypeRank(a.Type)

\* position of s[i] in the stable ascending order of s: after every element
\* with a smaller key and every earlier element with the same key
StablePosition(by, s, i) ==
    1 + Cardinality({j \in 1..Len(s) :
            \/ KeyOf(by, s[j]) < KeyOf(by, s[i])
            \/ KeyOf(by, s[j]) = KeyOf(by, s[i]) /\ j < i})

StablySorted(by, s) ==
    [p \in 1..Len(s) |-> s[CHOOSE i \in 1..Len(s) : StablePosition(by, s, i) = p]]

\* the candidates with the great-circle distance from the point attached
Measured ==
    [i \in 1..Len(acands) |->
        [acands[i] EXCEPT !.Distance = HaversineDistance(apoint, 0, acands[i].Lat, 0)]]

FiveNearest == Prefix(StablySorted("distance", Measured), Min(5, Len(acands)))

TopThree == Prefix(StablySorted("type", FiveNearest), Min(3, Len(FiveNearest)))

\* C6: the returned list is the first min(3,k) of the stable sort by type of
\* the first k = min(5,n) of the stable sort by distance of the n candidates;
\* so it is in non-decreasing type order, and two returned airports at the
\* same distance with different types are in ascending type order.
C6_TwoStageRanking ==
    apc = "returned" =>
        /\ aresult = TopThree
        /\ \A p, q \in 1..Len(aresult) :
              p < q => TypeRank(aresult[p].Type) <= TypeRank(aresult[q].Type)
        /\ \A p, q \in 1..Len(aresult) :
              (/\ aresult[p].Distance = aresult[q].Distance
               /\ TypeRank(aresult[p].Type) < TypeRank(aresult[q].Type)) => p < q

\* C6 witness: six candidates; a far large airport is cut off by the 5-nearest
\* stage, and two returned airports at the same distance differ in type and
\* were in descending type order in the input.
C6_Witness ==
    /\ apc = "returned"
    /\ Len(acands) = 6
    /\ \E i \in 1..Len(acands) :
          /\ acands[i].Type = "large_airport"
          /\ \A k \in 1..Len(aresult) : aresult[k].ID # i
          /\ \E k \in 1..Len(aresult) : aresult[k].Type = "small_airport"
    /\ \E p, q \in 1..Len(aresult) :
          /\ p < q
          /\ aresult[p].Distance = aresult[q].Distance
          /\ aresult[p].Type # aresult[q].Type
          /\ aresult[p].ID > aresult[q].ID

\* a record with its transient distance field cleared
Undistanced(a) == [a EXCEPT !.Distance = 0]

\* C7: for every candidate list of length n >= 0 the call returns exactly
\* min(3, n) records, no slice bound exceeds the length of the slice it cuts,
\* every returned record is one of the candidates, and no candidate
\* occurrence is returned twice.
C7_ClampedAndDrawnFromCandidates ==
    /\ apc \in {"return", "returned"} =>
          /\ Len(afilter) = Min(5, Len(acands))
          /\ Len(afilter) <= Len(amatches)
    /\ apc = "returned" =>
          /\ Len(aresult) = Min(3, Len(acands))
          /\ Len(aresult) <= Len(afilter)
          /\ \A k \in 1..Len(aresult) :
                /\ aresult[k].ID \in 1..Len(acands)
                /\ Undistanced(aresult[k]) = acands[aresult[k].ID]
          /\ \A p, q \in 1..Len(aresult) :
                aresult[p].ID = aresult[q].ID => p = q

\* C7 witness: a list longer than both cuts has been ranked
C7_Witness ==
    /\ apc = "returned"
    /\ Len(acands) = 6
    /\ Len(afilter) = 5
    /\ Len(aresult) = 3

\* whether candidate i is returned, and where
Returned(i) == \E k \in 1..Len(aresult) : aresult[k].ID = i
PlaceOf(i) == CHOOSE k \in 1..Len(aresult) : aresult[k].ID = i

\* candidates i and j lie at the same distance and have the same type
Tied(i, j) ==
    /\ HaversineDistance(apoint, 0, acands[i].Lat, 0) =
         HaversineDistance(apoint, 0, acands[j].Lat, 0)
    /\ acands[i].Type = acands[j].Type

\* C8: of two candidates with equal distance and equal type, the earlier in
\* the input comes first in the result when both are returned, and is the
\* one returned when only one is.
C8_TiesKeepInputOrder ==
    apc = "returned" =>
        \A i, j \in 1..Len(acands) :
            (i < j /\ Tied(i, j)) =>
                /\ (Returned(i) /\ Returned(j)) => PlaceOf(i) < PlaceOf(j)
                /\ Returned(j) => Returned(i)

\* C8 witness: one tied pair is returned whole, another tied pair is split
\* by a cut
C8_Witness ==
    /\ apc = "returned"
    /\ \E i, j \in 1..Len(acands) :
          i < j /\ Tied(i, j) /\ Returned(i) /\ Returned(j)
    /\ \E i, j \in 1..Len(acands) :
          i < j /\ Tied(i, j) /\ Returned(i) /\ ~Returned(j)

---------------------------------------------------------------------------
(* The scheduler: every goroutine that can run eventually does *)

MainStep == MakeChan \/ Spawn \/ RecvExit \/ Wait \/ Close

TaskStep(t) == TaskSearch(t) \/ TaskPanic(t) \/ Rendezvous(t) \/ TaskDone(t)

Fairness ==
    /\ WF_vars(MainStep)
    /\ \A t \in 1..MaxTerms : WF_vars(t \in Tasks /\ TaskStep(t))

LiveSpec == Init /\ [][Next]_vars /\ Fairness

---------------------------------------------------------------------------
(* Properties of performSearch and formatResults (checked under Spec) *)

\* performSearch has returned to main
PastReturn == mainpc \in {"returned", "format", "printed"}

\* the term has at least one indexed city
Matches(term) == \E c \in IndexedCities : c.Name = term

\* c is a highest-population city among those the term matches
IsBestMatch(c, term) ==
    /\ c \in IndexedCities
    /\ c.Name = term
    /\ \A d \in IndexedCities : d.Name = term => d.Population <= c.Population

MatchingTasks == {t \in Tasks : Matches(cities[t])}

\* C1: when performSearch returns it has received exactly N outcomes, one
\* from each dispatched task, every task has completed, and the channel is
\* closed only after all N sends have happened.
C1_DrainsAndJoinsAll ==
    /\ PastReturn =>
          /\ recvCount = N
          /\ Len(received) = N
          /\ \A t \in Tasks : Cardinality({k \in 1..N : received[k] = t}) = 1
          /\ \A t \in Tasks : taskpc[t] = "done"
          /\ wg = 0
    /\ chanClosed => \A t \in Tasks : taskpc[t] \in {"sent", "done"}

\* C1 witness: a full batch, hits and a miss, has returned
C1_Witness ==
    /\ mainpc = "returned"
    /\ N = 3
    /\ chanClosed
    /\ \E t \in Tasks : ~Matches(cities[t])
    /\ \E t \in Tasks : Matches(cities[t])

\* C2: the returned sequence has between 0 and N records, each the best
\* match of some term of the batch, none with an empty ID.
C2_OnlyBestMatchesOfBatchTerms ==
    /\ Len(results) <= N
    /\ \A k \in 1..Len(results) :
          /\ results[k].ID # ""
          /\ \E t \in Tasks : IsBestMatch(results[k], cities[t])

\* C2 witness: a term with two indexed cities was resolved among three terms,
\* fewer records than terms
C2_Witness ==
    /\ mainpc = "returned"
    /\ N = 3
    /\ Len(results) = 2
    /\ \E t \in Tasks : cities[t] = "london"
    /\ \E k \in 1..Len(results) : results[k].ID = "2643743"

\* C3: a term without a match makes its task report a miss (an empty City,
\* no panic of its own), performSearch leaves it out, every matching term
\* still contributes its best match, so the result holds one record per
\* matching term and formatResults emits one item per record.
C3_MissesOmittedHitsKept ==
    /\ \A t \in Tasks :
          ~Matches(cities[t]) =>
              /\ taskpc[t] # "panic: nil document"
              /\ taskpc[t] \in {"send", "sent", "done"} => taskres[t] = EmptyCity
    /\ PastReturn =>
          /\ Len(results) = Cardinality(MatchingTasks)
          /\ \A t \in MatchingTasks :
                \E k \in 1..Len(results) : IsBestMatch(results[k], cities[t])
    /\ mainpc = "printed" =>
          /\ Len(output) = Cardinality(MatchingTasks)
          /\ \A k \in 1..Len(output) : output[k].UID = results[k].ID

\* C3 witness: the batch "toronto, nonexistentcityxyz" printed one item
C3_Witness ==
    /\ cities = <<"toronto", "nonexistentcityxyz">>
    /\ mainpc = "printed"
    /\ Len(output) = 1
    /\ output[1].UID = "6167865"

\* a task's resolution failed inside searchCity
FailedInternally(t) == taskpc[t] \in Panicking

\* C4 (as claimed): a task that fails internally does not take the batch
\* down: while another task holds a record that is not yet returned, the
\* process is still running, so the record can be collected and returned.
C4_FailedTaskLeavesBatchRunning ==
    \A t, u \in Tasks :
        (/\ FailedInternally(t)
         /\ u # t
         /\ taskpc[u] \in {"send", "sent", "done"}
         /\ taskres[u].ID # ""
         /\ ~PastReturn) => Alive

\* C5 (as claimed): a resolved city with an invalid timezone does not abort
\* formatResults; the loop is never ended by it.
C5_InvalidZoneFailsOpen ==
    \A k \in 1..Len(results) :
        (/\ mainpc = "format"
         /\ fmtI >= k - 1
         /\ results[k].Timezone \notin KnownZones) => Alive

\* the outcomes in the order they were received
ReceivedOutcomes == [k \in 1..Len(received) |-> taskres[received[k]]]

NonEmptyID(c) == c.ID # ""

\* C9: the output is the sequence of hits in the order the outcomes were
\* received on the channel, misses removed.
C9_OutputInReceiveOrder ==
    results = SelectSeq(ReceivedOutcomes, NonEmptyID)

\* C9 witness: two matching terms, the later one's record first in the output
C9_Witness ==
    /\ mainpc = "returned"
    /\ \E t, u \in MatchingTasks :
          /\ t < u
          /\ cities[t] # cities[u]
          /\ \E p, q \in 1..Len(results) :
                /\ p < q
                /\ results[p] = taskres[u]
                /\ results[q] = taskres[t]

\* the other reachable case of C9: two matching terms, output in input order
C9_InputOrderReached ==
    /\ mainpc = "returned"
    /\ Cardinality(MatchingTasks) >= 2
    /\ results = SelectSeq([t \in Tasks |-> taskres[t]], NonEmptyID)
    /\ \E t, u \in MatchingTasks : cities[t] # cities[u]

\* some searchCity call did not return
SearchPanicked == \E t \in Tasks : taskpc[t] \in Panicking

\* performSearch has returned with no goroutine left behind
ReturnedWithAllTasksDone ==
    /\ PastReturn
    /\ \A t \in Tasks : taskpc[t] = "done"

\* C10 (under LiveSpec): if every searchCity call returns, performSearch
\* eventually returns: the senders and the collecting loop never deadlock,
\* no task stays blocked on its send, and wg.Wait is eventually passed.
C10_PerformSearchReturns ==
    <>(SearchPanicked \/ ReturnedWithAllTasksDone)

\* C10 witness: a full batch, with no panic, has returned and every task is done
C10_Witness ==
    /\ mainpc = "returned"
    /\ N = 3
    /\ ~SearchPanicked
    /\ \A t \in Tasks : taskpc[t] = "done"

=============================================================================
